---- MODULE Spec2Model ----
(***************************************************************************)
(* Model of autogen_pulse/pulse_filter.py: the Agent Pulse liveness        *)
(* filter (threshold parsing, address extraction, HTTP fetch with retry    *)
(* and backoff, status normalisation, recency decision, batch filtering).  *)
(*                                                                         *)
(* Text is modelled as sequences of one-character strings.  Hours are      *)
(* counted in units of 1/(3600*FracScale) hour, so that every threshold    *)
(* the model writes down is an exact integer number of units.  Timestamps  *)
(* that may exceed 32 bits are kept as pairs [k, r] standing for           *)
(* 1000*k + r.                                                             *)
(***************************************************************************)
EXTENDS Integers, Sequences, FiniteSets, TLC

\* ------------------------------------------------------------------ bounds
MaxAgents == 2
MaxRetriesBound == 2
MaxBackoff == 2
MaxFracDigits == 1
MaxNow == 4
MaxTs == 5
MaxThr == 3

\* --------------------------------------------------------------- constants
MsLimitK == 10000000

RECURSIVE Pow(_, _)
Pow(b, e) == IF e <= 0 THEN 1 ELSE b * Pow(b, e - 1)

FracScale == Pow(10, MaxFracDigits)

\* n hours / n seconds, in the unit hours are counted in
Hours(n) == n * 3600 * FracScale
Secs(n) == n * FracScale

\* ------------------------------------------------------------------- text
Digits == {"0", "1", "2", "3", "4", "5", "6", "7", "8", "9"}

DigitVal(c) ==
    CASE c = "0" -> 0 [] c = "1" -> 1 [] c = "2" -> 2 [] c = "3" -> 3
      [] c = "4" -> 4 [] c = "5" -> 5 [] c = "6" -> 6 [] c = "7" -> 7
      [] c = "8" -> 8 [] OTHER -> 9

IsSpace(c) == c \in {" ", "\t", "\n"}

\* str.lower() on one character
LowerChar(c) ==
    CASE c = "A" -> "a" [] c = "B" -> "b" [] c = "C" -> "c" [] c = "D" -> "d"
      [] c = "E" -> "e" [] c = "F" -> "f" [] c = "H" -> "h" [] c = "M" -> "m"
      [] c = "S" -> "s" [] c = "X" -> "x" [] OTHER -> c

lower(s) == [j \in 1..Len(s) |-> LowerChar(s[j])]

RECURSIVE lstrip(_)
lstrip(s) == IF s # <<>> /\ IsSpace(Head(s)) THEN lstrip(Tail(s)) ELSE s

RECURSIVE rstrip(_)
rstrip(s) ==
    IF s # <<>> /\ IsSpace(s[Len(s)]) THEN rstrip(SubSeq(s, 1, Len(s) - 1)) ELSE s

strip(s) == rstrip(lstrip(s))

\* length of the longest prefix of s made of characters of set cs
RECURSIVE Run(_, _)
Run(s, cs) == IF s # <<>> /\ Head(s) \in cs THEN 1 + Run(Tail(s), cs) ELSE 0

Drop(s, n) == SubSeq(s, n + 1, Len(s))

RECURSIVE DecVal(_)
DecVal(s) == IF s = <<>> THEN 0 ELSE 10 * DecVal(SubSeq(s, 1, Len(s) - 1)) + DigitVal(s[Len(s)])

\* ------------------------------------------------------- parse_threshold
Units == {"s", "m", "h", "d"}

\* re.match(r"^(?P<value>\d+(?:\.\d+)?)\s*(?P<unit>[smhd])$", s):
\* [ok, value (scaled by FracScale), unit].  The texts the model writes down
\* have at most MaxFracDigits digits after the point.
ThresholdMatch(s) ==
    LET n1   == Run(s, Digits)
        r1   == Drop(s, n1)
        nf   == IF r1 # <<>> /\ Head(r1) = "." THEN Run(Tail(r1), Digits) ELSE 0
        r2   == IF nf > 0 THEN Drop(r1, nf + 1) ELSE r1
        r3   == Drop(r2, Run(r2, {" ", "\t", "\n"}))
        ip   == DecVal(SubSeq(s, 1, n1))
        fp   == IF nf > 0 THEN DecVal(SubSeq(r1, 2, nf + 1)) ELSE 0
    IN  IF n1 >= 1 /\ Len(r3) = 1 /\ r3[1] \in Units
        THEN [ok |-> TRUE, value |-> ip * FracScale + fp * Pow(10, MaxFracDigits - nf),
              unit |-> r3[1]]
        ELSE [ok |-> FALSE, value |-> 0, unit |-> "h"]

\* threshold inputs: a number of hours, a string, or a value of another type
NumT(h) == [kind |-> "num", hours |-> h, text |-> <<>>]
StrT(s) == [kind |-> "str", hours |-> 0, text |-> s]
OtherT == [kind |-> "other", hours |-> 0, text |-> <<>>]

Ok(v) == [ok |-> TRUE, val |-> v, err |-> "none"]
Err(e) == [ok |-> FALSE, val |-> 0, err |-> e]

\* a variant that lets zero through
NonPositive_strict(h) == h < 0

\* threshold <= 0, value <= 0
NonPositive(h) == h <= 0

parse_threshold(threshold) ==
    IF threshold.kind = "num"
    THEN IF NonPositive(threshold.hours) THEN Err("ValueError") ELSE Ok(threshold.hours)
    ELSE IF threshold.kind # "str" THEN Err("ValueError")
    ELSE LET m == ThresholdMatch(lower(strip(threshold.text)))
         IN  IF ~m.ok THEN Err("ValueError")
             ELSE IF NonPositive(m.value) THEN Err("ValueError")
             ELSE IF m.unit = "s" THEN Ok(m.value)
             ELSE IF m.unit = "m" THEN Ok(m.value * 60)
             ELSE IF m.unit = "h" THEN Ok(m.value * 3600)
             ELSE Ok(m.value * 86400)

\* ---------------------------------------------------- address extraction
emptyAddress(a) == a = <<>>

\* _normalize_address: strip, reject empty, lowercase (the 0x prefix too)
normalize_address(address) ==
    LET a == strip(address)
    IN  IF emptyAddress(a) THEN Err("ValueError")
        ELSE IF Len(a) >= 2 /\ a[1] = "0" /\ a[2] \in {"x", "X"}
             THEN Ok(<<"0", "x">> \o lower(Drop(a, 2)))
             ELSE Ok(lower(a))

AddressKeys == <<"address", "wallet_address", "walletAddress", "agent_address", "agentAddress">>

\* a value held under a key or attribute: a string, something else, or nothing
TextV(s) == [t |-> "str", s |-> s]
IntV == [t |-> "int", s |-> <<>>]
NoV == [t |-> "none", s |-> <<>>]

\* a variant that takes any string, blank or not
Usable_any_string(v) == v.t = "str"

\* isinstance(value, str) and value.strip()
Usable(v) == v.t = "str" /\ strip(v.s) # <<>>

\* index of the first key of AddressKeys, from j on, holding a usable value (0: none)
RECURSIVE Probe(_, _)
Probe(m, j) ==
    IF j > Len(AddressKeys) THEN 0
    ELSE IF Usable(m[AddressKeys[j]]) THEN j
    ELSE Probe(m, j + 1)

\* agents: a string, a dict, or an object with attributes
StrAgent(s) == [kind |-> "str", s |-> s, m |-> [k \in {} |-> NoV]]
NoKeys == [k \in {"address", "wallet_address", "walletAddress", "agent_address", "agentAddress"} |-> NoV]
DictAgent(m) == [kind |-> "dict", s |-> <<>>, m |-> m]
ObjAgent(m) == [kind |-> "obj", s |-> <<>>, m |-> m]

get_agent_address(agent) ==
    IF agent.kind = "str" THEN normalize_address(agent.s)
    ELSE LET j == Probe(agent.m, 1)
         IN  IF j = 0 THEN Err("ValueError")
             ELSE normalize_address(agent.m[AddressKeys[j]].s)

\* a caller-supplied address_getter: returns the text of a string agent as it
\* is, and raises on anything else
custom_getter(agent) ==
    IF agent.kind = "str" THEN Ok(agent.s) ELSE Err("TypeError")

\* ------------------------------------------------------------ wide integers
\* [k, r] stands for 1000*k + r, 0 <= r < 1000
W(n) == [k |-> n \div 1000, r |-> n % 1000]
WSub(a, b) ==
    IF a.r >= b.r THEN [k |-> a.k - b.k, r |-> a.r - b.r]
    ELSE [k |-> a.k - b.k - 1, r |-> a.r - b.r + 1000]
WLeq(a, b) == a.k < b.k \/ (a.k = b.k /\ a.r <= b.r)
WMax(a, b) == IF WLeq(a, b) THEN b ELSE a

\* ------------------------------------------------------ status normaliser
\* JSON values: null/absent, a boolean, an integer, a text that is no number,
\* a text of decimal digits
JNull == [t |-> "null", b |-> FALSE, n |-> W(0)]
JBool(b) == [t |-> "bool", b |-> b, n |-> W(0)]
JInt(n) == [t |-> "int", b |-> FALSE, n |-> W(n)]
JWide(k, r) == [t |-> "int", b |-> FALSE, n |-> [k |-> k, r |-> r]]
JText == [t |-> "text", b |-> FALSE, n |-> W(0)]
JNumText(n) == [t |-> "numtext", b |-> FALSE, n |-> W(n)]

PayloadKeys == {"alive", "isAlive", "lastPulse", "lastPulseTimestamp", "streakCount", "streak"}
EmptyPayload == [k \in PayloadKeys |-> JNull]

\* a variant that falls back whenever the first value is falsy
Prefer_truthy(payload, first, second) ==
    IF payload[first].t = "null" \/ (payload[first].t = "bool" /\ ~payload[first].b)
    THEN payload[second] ELSE payload[first]

\* payload.get(first), and payload.get(second) when that is None
Prefer(payload, first, second) ==
    IF payload[first].t # "null" THEN payload[first] ELSE payload[second]

\* int(v): [ok, n]
ToInt(v) ==
    CASE v.t = "int" -> [ok |-> TRUE, n |-> v.n]
      [] v.t = "numtext" -> [ok |-> TRUE, n |-> v.n]
      [] v.t = "bool" -> [ok |-> TRUE, n |-> W(IF v.b THEN 1 ELSE 0)]
      [] OTHER -> [ok |-> FALSE, n |-> W(0)]

\* bool(v) for a value that is not None
Truthy(v) ==
    CASE v.t = "bool" -> v.b
      [] v.t = "int" -> v.n # W(0)
      [] OTHER -> TRUE

\* a variant that also divides the limit itself
LooksLikeMs_inclusive(lp) == lp.k >= MsLimitK

\* lp > 10_000_000_000
LooksLikeMs(lp) == lp.k > MsLimitK \/ (lp.k = MsLimitK /\ lp.r > 0)

NormalizeTs(last_pulse) ==
    IF last_pulse.t = "null" THEN JNull
    ELSE LET c == ToInt(last_pulse)
         IN  IF ~c.ok THEN JNull
             ELSE IF LooksLikeMs(c.n) THEN [t |-> "int", b |-> FALSE, n |-> W(c.n.k)]
             ELSE [t |-> "int", b |-> FALSE, n |-> c.n]

NormalizeCount(streak) ==
    IF streak.t = "null" THEN JNull
    ELSE LET c == ToInt(streak)
         IN  IF c.ok THEN [t |-> "int", b |-> FALSE, n |-> c.n] ELSE JNull

\* the part of get_agent_status after the fetch
status_of(norm, payload) ==
    LET alive == Prefer(payload, "alive", "isAlive")
        last_pulse == Prefer(payload, "lastPulse", "lastPulseTimestamp")
        streak == Prefer(payload, "streakCount", "streak")
    IN  [address |-> norm,
         alive |-> IF alive.t # "null" THEN JBool(Truthy(alive)) ELSE JNull,
         last_pulse_timestamp |-> NormalizeTs(last_pulse),
         streak_count |-> NormalizeCount(streak),
         raw |-> payload]

\* ---------------------------------------------------------------- recency
Staleness(now_ts, ts) == WMax(W(0), WSub(W(now_ts), ts))

\* a variant that wants the staleness below the threshold
is_recent_strict(status, now_ts, threshold_seconds) ==
    IF status.last_pulse_timestamp.t = "null"
    THEN status.alive.t = "bool" /\ status.alive.b
    ELSE ~WLeq(W(threshold_seconds), Staleness(now_ts, status.last_pulse_timestamp.n))

\* a variant that never keeps an agent the service reports as not alive
is_recent_unless_dead(status, now_ts, threshold_seconds) ==
    IF status.last_pulse_timestamp.t = "null"
    THEN status.alive.t = "bool" /\ status.alive.b
    ELSE /\ status.alive # JBool(FALSE)
         /\ WLeq(Staleness(now_ts, status.last_pulse_timestamp.n), W(threshold_seconds))

is_recent(status, now_ts, threshold_seconds) ==
    IF status.last_pulse_timestamp.t = "null"
    THEN status.alive.t = "bool" /\ status.alive.b
    ELSE WLeq(Staleness(now_ts, status.last_pulse_timestamp.n), W(threshold_seconds))

\* ------------------------------------------------------------ HTTP fetcher
\* what one GET can end with: a 200 whose body is a JSON object ("json"), a 200
\* whose body decodes to something that is no object ("nondict"), a 200 whose
\* body cannot be read or decoded ("bodyerr"), an HTTPError with a status code
\* ("http"), or a URLError / TimeoutError ("neterr")
Resp(kind, code, payload) == [kind |-> kind, code |-> code, payload |-> payload]
NoResp == Resp("none", 0, EmptyPayload)

StartTime == 1000

\* a pulse exactly 100 seconds before the start time
BoundaryPayload ==
    [EmptyPayload EXCEPT !["alive"] = JBool(TRUE), !["lastPulse"] = JInt(StartTime - 100)]

Payloads ==
    { [EmptyPayload EXCEPT !["alive"] = JBool(TRUE), !["lastPulse"] = JInt(StartTime - 10),
                           !["streakCount"] = JInt(5)],
      [EmptyPayload EXCEPT !["isAlive"] = JBool(FALSE)],
      [EmptyPayload EXCEPT !["isAlive"] = JBool(TRUE), !["lastPulseTimestamp"] = JInt(0)],
      [EmptyPayload EXCEPT !["alive"] = JBool(FALSE), !["lastPulse"] = JInt(StartTime + 1000)],
      [EmptyPayload EXCEPT !["alive"] = JBool(TRUE)],
      BoundaryPayload }

StatusCodes == {404, 408, 429, 503}

Responses ==
    { Resp("json", 200, p) : p \in Payloads }
    \cup { Resp("nondict", 200, EmptyPayload), Resp("bodyerr", 200, EmptyPayload),
           Resp("neterr", 0, EmptyPayload) }
    \cup { Resp("http", c, EmptyPayload) : c \in StatusCodes }

\* the answers of the service when a batch is run twice against it
ScriptResponses ==
    { Resp("json", 200, BoundaryPayload),
      Resp("json", 200, [EmptyPayload EXCEPT !["isAlive"] = JBool(FALSE)]),
      Resp("http", 503, EmptyPayload), Resp("http", 404, EmptyPayload) }

\* variants: every error status is retried; only 408 and 429 are
retryable_any(status) == status >= 400
retryable_no5xx(status) == status \in {408, 429}

\* status in (408, 429) or 500 <= status <= 599
retryable(status) == status \in {408, 429} \/ (500 <= status /\ status <= 599)

\* a variant that gives up one attempt early
exhausted_early(attempt, retries) == attempt + 1 >= retries

\* attempt >= max_retries: the budget is used up
exhausted(attempt, retries) == attempt >= retries

\* a variant that counts attempts from one
sleep_for_from_one(backoff, attempt) == backoff * Pow(2, attempt + 1)

\* backoff_secs * (2**attempt)
sleep_for(backoff, attempt) == backoff * Pow(2, attempt)

\* a variant that raises on an HTTP error only when the budget is used up and
\* the status is not retryable
on_response_both(resp, attempt, retries) ==
    CASE resp.kind \in {"json", "nondict"} -> "return"
      [] resp.kind = "bodyerr" -> "escape"
      [] resp.kind = "http" ->
            IF attempt >= retries /\ ~(resp.code \in {408, 429} \/ resp.code \in 500..599)
            THEN "raise" ELSE "sleep"
      [] OTHER -> IF attempt >= retries THEN "raise" ELSE "sleep"

\* what _http_get_json does with the response to attempt number `attempt`:
\* "return", "raise" (AgentPulseError), "escape" (another error leaves the
\* function) or "sleep" (go on to the backoff sleep)
on_response(resp, attempt, retries) ==
    CASE resp.kind \in {"json", "nondict"} -> "return"
      [] resp.kind = "bodyerr" -> "escape"
      [] resp.kind = "http" ->
            IF exhausted(attempt, retries) \/ ~retryable(resp.code) THEN "raise" ELSE "sleep"
      [] OTHER -> IF exhausted(attempt, retries) THEN "raise" ELSE "sleep"

\* ------------------------------------------------------------ the program
\* the agent objects a caller may pass, by identity
Heap ==
    << StrAgent(<<" ", "0", "X", "A", "b">>),
       DictAgent([NoKeys EXCEPT !["address"] = TextV(<<" ">>),
                                !["wallet_address"] = TextV(<<"C", "d">>)]),
       ObjAgent([NoKeys EXCEPT !["address"] = IntV]) >>

AgentIds == DOMAIN Heap

AgentLists == UNION { [1..n -> AgentIds] : n \in 0..MaxAgents }

\* thresholds passed to filter_alive_agents (hours) and to filter_alive
HourInputs == { NumT(Hours(0 - 1)), NumT(0), NumT(Secs(100)) }
ZeroTexts == { <<"0", "h">>, <<"0", ".", "0", "s">> }
FriendlyInputs ==
    { NumT(Hours(0 - 1)), NumT(0), OtherT, StrT(<<"a", "b", "c">>), StrT(<<" ", "1", "H">>) }
    \cup { StrT(t) : t \in ZeroTexts }

VARIABLES
    entry, agents, threshold, drop_on_error, max_retries, backoff_secs, address_getter,
    clock,
    pc, idx, now_ts, threshold_seconds, alive_agents, addr, result,
    status, attempt,
    agents0, outcome, reqAgent, reqCount, nfail, lastResp, sleeps, fetched,
    arg, ret, replay

argVars == <<entry, agents, threshold, drop_on_error, max_retries, backoff_secs,
             address_getter, agents0>>
fetchVars == <<attempt, reqCount, nfail, lastResp, sleeps, fetched>>
pureVars == <<arg, ret>>
vars == <<entry, agents, threshold, drop_on_error, max_retries, backoff_secs, address_getter,
          clock, pc, idx, now_ts, threshold_seconds, alive_agents, addr, result, status,
          attempt, agents0, outcome, reqAgent, reqCount, nfail, lastResp, sleeps, fetched,
          arg, ret, replay>>

NoResult == [kind |-> "none", list |-> <<>>, err |-> "none"]
Returned(l) == [kind |-> "list", list |-> l, err |-> "none"]
Raised(e) == [kind |-> "error", list |-> <<>>, err |-> e]
NoStatus == status_of(<<>>, EmptyPayload)
NoArg == [fn |-> "none"]

\* the service seen over two calls: in the first call its answers are logged,
\* in the second it gives the same answers again, in the same order; in mode
\* "count" the service counts the requests of one batch in pos
NoReplay == [mode |-> "single", log |-> <<>>, pos |-> 0, first |-> NoResult, firstNow |-> 0]
Offered ==
    CASE replay.mode = "first" -> ScriptResponses
      [] replay.mode = "second" /\ replay.pos < Len(replay.log) -> {replay.log[replay.pos + 1]}
      [] replay.mode = "second" -> ScriptResponses
      [] OTHER -> Responses
Served(resp) ==
    CASE replay.mode = "first" -> [replay EXCEPT !.log = Append(@, resp)]
      [] replay.mode \in {"second", "count"} -> [replay EXCEPT !.pos = @ + 1]
      [] OTHER -> replay

\* a failed attempt the fetcher may retry, as the specification words it
SpecRetryable(resp) ==
    \/ resp.kind = "neterr"
    \/ resp.kind = "http" /\ (resp.code = 408 \/ resp.code = 429 \/ resp.code \in 500..599)

Init ==
    /\ entry \in {"filter_alive_agents", "filter_alive"}
    /\ threshold \in IF entry = "filter_alive" THEN FriendlyInputs ELSE HourInputs
    /\ agents \in AgentLists
    /\ agents0 = agents
    /\ drop_on_error \in BOOLEAN
    /\ max_retries \in (0 - 1)..MaxRetriesBound
    /\ backoff_secs \in 0..MaxBackoff
    /\ address_getter \in {"default", "custom"}
    /\ clock = StartTime
    /\ pc = "call"
    /\ idx = 0
    /\ now_ts = 0
    /\ threshold_seconds = 0
    /\ alive_agents = <<>>
    /\ addr = <<>>
    /\ result = NoResult
    /\ attempt = 0
    /\ outcome = <<>>
    /\ reqAgent = 0
    /\ reqCount = 0
    /\ lastResp = NoResp
    /\ sleeps = <<>>
    /\ fetched = "none"
    /\ status = NoStatus
    /\ nfail = 0
    /\ arg = NoArg
    /\ ret = "none"
    /\ replay = NoReplay

\* a variant that lets zero through
threshold_invalid_lt(threshold_hours) == threshold_hours < 0

\* threshold_hours <= 0
threshold_invalid(threshold_hours) == threshold_hours <= 0

\* int(float(threshold_hours) * 3600), for threshold_hours > 0
seconds_of(threshold_hours) == threshold_hours \div FracScale

\* a variant in which the list outlives the call
fresh_list_shared(old) == old

\* alive_agents: List[Any] = []
fresh_list(old) == <<>>

\* filter_alive_agents up to the loop
Prologue(threshold_hours) ==
    IF threshold_invalid(threshold_hours)
    THEN /\ pc' = "raised"
         /\ result' = Raised("ValueError")
         /\ UNCHANGED <<now_ts, threshold_seconds, alive_agents>>
    ELSE /\ pc' = "loop"
         /\ now_ts' = clock
         /\ threshold_seconds' = seconds_of(threshold_hours)
         /\ alive_agents' = fresh_list(alive_agents)
         /\ UNCHANGED result

filter_alive_agents ==
    /\ pc = "call"
    /\ entry = "filter_alive_agents"
    /\ Prologue(threshold.hours)
    /\ UNCHANGED <<argVars, fetchVars, pureVars, replay, clock, idx, addr, status,
                   outcome, reqAgent>>

filter_alive ==
    /\ pc = "call"
    /\ entry = "filter_alive"
    /\ LET h == parse_threshold(threshold)
       IN  IF h.ok THEN Prologue(h.val)
           ELSE /\ pc' = "raised"
                /\ result' = Raised(h.err)
                /\ UNCHANGED <<now_ts, threshold_seconds, alive_agents>>
    /\ UNCHANGED <<argVars, fetchVars, pureVars, replay, clock, idx, addr, status,
                   outcome, reqAgent>>

\* variants that ignore the flag
on_error_raise(drop) == "raise"
on_error_continue(drop) == "continue"

\* the except clause of the loop: continue, or re-raise
on_error(drop) == IF drop THEN "continue" ELSE "raise"

\* a variant that puts the accepted agent in front
accept_front(list, agent, address) == <<agent>> \o list

\* alive_agents.append(agent)
accept(list, agent, address) == Append(list, agent)

\* the recency decision as the specification words it
SpecRecent(alive, ts, now, thr) ==
    IF ts.t = "null" THEN alive.t = "bool" /\ alive.b
    ELSE WLeq(W(now), ts.n) \/ WLeq(WSub(W(now), ts.n), W(thr))

\* the agent at idx' could not be checked
AgentFails(what, err) ==
    /\ outcome' = Append(outcome, what)
    /\ alive_agents' = alive_agents
    /\ status' = NoStatus
    /\ IF on_error(drop_on_error) = "continue"
       THEN pc' = "loop" /\ result' = result
       ELSE pc' = "raised" /\ result' = Raised(err)

\* a variant that looks at the clock again for every agent
decision_time_current(batch_now, clk) == clk

\* _is_recent(status, now_ts=now_ts, ...): the time read before the loop
decision_time(batch_now, clk) == batch_now

\* get_agent_status after the fetch, and the recency check
AgentChecked(payload) ==
    LET st == status_of(addr, payload)
    IN  /\ status' = st
        /\ outcome' = Append(outcome,
                IF SpecRecent(st.alive, st.last_pulse_timestamp, now_ts, threshold_seconds)
                THEN "recent" ELSE "stale")
        /\ alive_agents' = IF is_recent(st, decision_time(now_ts, clock), threshold_seconds)
                           THEN accept(alive_agents, agents[idx], addr)
                           ELSE alive_agents
        /\ pc' = "loop"
        /\ result' = result

\* a variant in which the attempts of earlier fetches count on
first_attempt_carried(prev) == prev

\* for attempt in range(max_retries + 1): every fetch starts at 0
first_attempt(prev) == 0

\* one iteration of the loop up to the first request
NextAgent ==
    /\ pc = "loop"
    /\ idx < Len(agents)
    /\ idx' = idx + 1
    /\ attempt' = first_attempt(attempt)
    /\ reqCount' = 0
    /\ nfail' = 0
    /\ lastResp' = NoResp
    /\ sleeps' = <<>>
    /\ LET agent == Heap[agents[idx + 1]]
           a == IF address_getter = "custom" THEN custom_getter(agent)
                ELSE get_agent_address(agent)
           norm == IF a.ok THEN normalize_address(a.val) ELSE a
       IN  IF ~a.ok
           THEN AgentFails("addr_error", a.err) /\ fetched' = "none" /\ addr' = <<>>
           ELSE IF ~norm.ok
           THEN AgentFails("fetch_error", norm.err) /\ fetched' = "none" /\ addr' = <<>>
           ELSE IF max_retries + 1 <= 0
           THEN AgentFails("fetch_error", "AgentPulseError") /\ fetched' = "after_loop"
                /\ addr' = norm.val
           ELSE /\ pc' = "request"
                /\ fetched' = "none"
                /\ addr' = norm.val
                /\ status' = NoStatus
                /\ UNCHANGED <<outcome, alive_agents, result>>
    /\ UNCHANGED <<argVars, pureVars, replay, clock, now_ts, threshold_seconds, reqAgent>>

\* one attempt of _http_get_json and what follows from its response
HttpAttempt ==
    /\ pc = "request"
    /\ \E resp \in Offered :
          LET act == on_response(resp, attempt, max_retries)
          IN  /\ lastResp' = resp
              /\ replay' = Served(resp)
              /\ nfail' = IF SpecRetryable(resp) THEN nfail + 1 ELSE nfail
              /\ CASE act = "sleep" ->
                        /\ pc' = "backoff"
                        /\ fetched' = "none"
                        /\ UNCHANGED <<outcome, alive_agents, result, status>>
                   [] act = "raise" ->
                        /\ fetched' = "AgentPulseError"
                        /\ AgentFails("fetch_error", "AgentPulseError")
                   [] act = "escape" ->
                        /\ fetched' = "OtherError"
                        /\ AgentFails("fetch_error", "BodyError")
                   [] OTHER ->
                        /\ fetched' = "payload"
                        /\ IF resp.kind = "nondict"
                           THEN AgentFails("fetch_error", "AttributeError")
                           ELSE AgentChecked(resp.payload)
    /\ reqCount' = reqCount + 1
    /\ reqAgent' = idx
    /\ UNCHANGED <<argVars, pureVars, clock, idx, now_ts, threshold_seconds, addr, attempt,
                   sleeps>>

\* for attempt in range(max_retries + 1): is there a round after this one
more_attempts(att, retries) == att + 1 < retries + 1

\* time.sleep(sleep_for), then the next round of the for loop
Backoff ==
    /\ pc = "backoff"
    /\ sleeps' = Append(sleeps, sleep_for(backoff_secs, attempt))
    /\ clock' = clock + sleep_for(backoff_secs, attempt)
    /\ attempt' = attempt + 1
    /\ IF more_attempts(attempt, max_retries)
       THEN /\ pc' = "request"
            /\ fetched' = "none"
            /\ UNCHANGED <<outcome, alive_agents, result, status>>
       ELSE /\ fetched' = "after_loop"
            /\ AgentFails("fetch_error", "AgentPulseError")
    /\ UNCHANGED <<argVars, pureVars, replay, idx, now_ts, threshold_seconds, addr,
                   reqCount, nfail, lastResp, reqAgent>>

\* return alive_agents
Return ==
    /\ pc = "loop"
    /\ idx = Len(agents)
    /\ pc' = "returned"
    /\ result' = Returned(alive_agents)
    /\ UNCHANGED <<argVars, fetchVars, pureVars, replay, clock, idx, now_ts,
                   threshold_seconds, alive_agents, addr, status, outcome, reqAgent>>

Next == filter_alive_agents \/ filter_alive \/ NextAgent \/ HttpAttempt \/ Backoff \/ Return

Spec == Init /\ [][Next]_vars

TypeOK ==
    /\ pc \in {"call", "loop", "request", "backoff", "returned", "raised"}
    /\ idx \in 0..Len(agents)

\* ------------------------------------- one batch, run to its end, counted
InitCounted ==
    /\ entry \in {"filter_alive_agents", "filter_alive"}
    /\ threshold = IF entry = "filter_alive" THEN StrT(<<"1", "0", "0", "s">>)
                   ELSE NumT(Secs(100))
    /\ agents \in AgentLists
    /\ agents0 = agents
    /\ drop_on_error \in BOOLEAN
    /\ max_retries \in (0 - 1)..MaxRetriesBound
    /\ backoff_secs = 1
    /\ address_getter = "default"
    /\ clock = StartTime
    /\ pc = "call"
    /\ idx = 0
    /\ now_ts = 0
    /\ threshold_seconds = 0
    /\ alive_agents = <<>>
    /\ addr = <<>>
    /\ result = NoResult
    /\ attempt = 0
    /\ outcome = <<>>
    /\ reqAgent = 0
    /\ reqCount = 0
    /\ lastResp = NoResp
    /\ sleeps = <<>>
    /\ fetched = "none"
    /\ status = NoStatus
    /\ nfail = 0
    /\ arg = NoArg
    /\ ret = "none"
    /\ replay = [NoReplay EXCEPT !.mode = "count"]

\* the program is one thread that always takes its next step, and the service
\* answers or fails every request: every action is weakly fair.  For
\* filter_alive and NextAgent the condition under which they are enabled is
\* written out (both are total once their guard holds).
ProgramRuns ==
    /\ WF_vars(filter_alive_agents)
    /\ WF_vars(HttpAttempt)
    /\ WF_vars(Backoff)
    /\ WF_vars(Return)
    /\ (<>[](pc = "call" /\ entry = "filter_alive")) => []<><<filter_alive>>_vars
    /\ (<>[](pc = "loop" /\ idx < Len(agents))) => []<><<NextAgent>>_vars

SpecCounted == InitCounted /\ [][Next]_vars /\ ProgramRuns

\* ------------------------------------------------- the same batch, twice
TwiceRetries == 1

InitTwice ==
    /\ entry \in {"filter_alive_agents", "filter_alive"}
    /\ threshold = IF entry = "filter_alive" THEN StrT(<<"1", "0", "0", "s">>)
                   ELSE NumT(Secs(100))
    /\ agents \in AgentLists
    /\ agents0 = agents
    /\ drop_on_error \in BOOLEAN
    /\ max_retries = TwiceRetries
    /\ backoff_secs = 1
    /\ address_getter = "default"
    /\ clock = StartTime
    /\ pc = "call"
    /\ idx = 0
    /\ now_ts = 0
    /\ threshold_seconds = 0
    /\ alive_agents = <<>>
    /\ addr = <<>>
    /\ result = NoResult
    /\ attempt = 0
    /\ outcome = <<>>
    /\ reqAgent = 0
    /\ reqCount = 0
    /\ lastResp = NoResp
    /\ sleeps = <<>>
    /\ fetched = "none"
    /\ status = NoStatus
    /\ nfail = 0
    /\ arg = NoArg
    /\ ret = "none"
    /\ replay = [NoReplay EXCEPT !.mode = "first"]

\* the caller calls the same entry point again with the same arguments; the
\* locals of the first call are gone, and the clock may have moved on
SecondCall ==
    /\ replay.mode = "first"
    /\ pc \in {"returned", "raised"}
    /\ replay' = [replay EXCEPT !.mode = "second", !.first = result, !.firstNow = now_ts]
    /\ \E d \in 0..1 : clock' = clock + d
    /\ pc' = "call"
    /\ idx' = 0
    /\ addr' = <<>>
    /\ result' = NoResult
    /\ status' = NoStatus
    /\ attempt' = 0
    /\ outcome' = <<>>
    /\ reqAgent' = 0
    /\ reqCount' = 0
    /\ nfail' = 0
    /\ lastResp' = NoResp
    /\ sleeps' = <<>>
    /\ fetched' = "none"
    /\ UNCHANGED <<argVars, pureVars, now_ts, threshold_seconds, alive_agents>>

NextTwice ==
    filter_alive_agents \/ filter_alive \/ NextAgent \/ HttpAttempt \/ Backoff \/ Return
    \/ SecondCall

SpecTwice == InitTwice /\ [][NextTwice]_vars

\* ------------------------------------------- the recency decision by itself
RecentAlive == {JNull, JBool(TRUE), JBool(FALSE)}
RecentTs == {JNull} \cup {JInt(n) : n \in (0..MaxTs) \cup {500, 2000}}
RecentNow == (0..MaxNow) \cup {1000}
RecentThr == (0..MaxThr) \cup {100, 3600}

InitRecent ==
    /\ arg \in [fn : {"is_recent"}, alive : RecentAlive, ts : RecentTs,
                now : RecentNow, thr : RecentThr]
    /\ ret = "none"
    /\ pc = "pure"
    /\ entry = "none"
    /\ threshold = NumT(0)
    /\ agents = <<>>
    /\ agents0 = <<>>
    /\ drop_on_error = TRUE
    /\ max_retries = 0
    /\ backoff_secs = 0
    /\ address_getter = "default"
    /\ clock = StartTime
    /\ idx = 0
    /\ now_ts = 0
    /\ threshold_seconds = 0
    /\ alive_agents = <<>>
    /\ addr = <<>>
    /\ result = NoResult
    /\ status = NoStatus
    /\ attempt = 0
    /\ outcome = <<>>
    /\ reqAgent = 0
    /\ reqCount = 0
    /\ nfail = 0
    /\ lastResp = NoResp
    /\ sleeps = <<>>
    /\ fetched = "none"
    /\ replay = NoReplay

\* _is_recent(status, now_ts=now, threshold_seconds=thr)
CallIsRecent ==
    /\ pc = "pure"
    /\ arg.fn = "is_recent"
    /\ LET st == [NoStatus EXCEPT !.alive = arg.alive, !.last_pulse_timestamp = arg.ts]
       IN  ret' = IF is_recent(st, arg.now, arg.thr) THEN "true" ELSE "false"
    /\ pc' = "done"
    /\ UNCHANGED <<argVars, fetchVars, arg, replay, clock, idx, now_ts, threshold_seconds,
                   alive_agents, addr, result, status, outcome, reqAgent>>

NextRecent == CallIsRecent

SpecIsRecent == InitRecent /\ [][NextRecent]_vars

\* ------------------------------------------ the status normaliser by itself
\* everything but arg is as before any call
Idle ==
    /\ ret = "none"
    /\ pc = "pure"
    /\ entry = "none"
    /\ threshold = NumT(0)
    /\ agents = <<>>
    /\ agents0 = <<>>
    /\ drop_on_error = TRUE
    /\ max_retries = 0
    /\ backoff_secs = 0
    /\ address_getter = "default"
    /\ clock = StartTime
    /\ idx = 0
    /\ now_ts = 0
    /\ threshold_seconds = 0
    /\ alive_agents = <<>>
    /\ addr = <<>>
    /\ result = NoResult
    /\ status = NoStatus
    /\ attempt = 0
    /\ outcome = <<>>
    /\ reqAgent = 0
    /\ reqCount = 0
    /\ nfail = 0
    /\ lastResp = NoResp
    /\ sleeps = <<>>
    /\ fetched = "none"
    /\ replay = NoReplay

AliveValues == {JNull, JBool(TRUE), JBool(FALSE)}
TsValues ==
    { JNull, JText, JNumText(StartTime), JInt(StartTime - 100), JInt(StartTime - 101),
      JInt(1700000000), JWide(1700000000, 0), JWide(MsLimitK, 0), JWide(MsLimitK, 1) }
StreakValues == {JNull, JText, JInt(5)}

StatusPayloads ==
    { [k \in PayloadKeys |->
          CASE k = "alive" -> a1 [] k = "isAlive" -> a2
            [] k = "lastPulse" -> t1 [] k = "lastPulseTimestamp" -> t2
            [] k = "streakCount" -> s1 [] OTHER -> s2] :
        a1 \in AliveValues, a2 \in AliveValues, t1 \in TsValues, t2 \in TsValues,
        s1 \in StreakValues, s2 \in StreakValues }

InitStatus ==
    /\ arg \in [fn : {"status"}, payload : StatusPayloads, now : {StartTime}, thr : {100}]
    /\ Idle

\* the payload of one fetch is normalised (get_agent_status) and the status
\* is put to the recency test (filter_alive_agents, lines 312 and 320)
CallStatus ==
    /\ pc = "pure"
    /\ arg.fn = "status"
    /\ status' = status_of(<<>>, arg.payload)
    /\ ret' = IF is_recent(status', arg.now, arg.thr) THEN "true" ELSE "false"
    /\ pc' = "done"
    /\ UNCHANGED <<argVars, fetchVars, arg, replay, clock, idx, now_ts, threshold_seconds,
                   alive_agents, addr, result, outcome, reqAgent>>

NextStatus == CallStatus

SpecStatus == InitStatus /\ [][NextStatus]_vars

\* ---------------------------------------------- parse_threshold by itself
ParseAlphabet == {"0", "1", ".", "s", "m", "H", "d", " ", "x"}
MaxTextLen == MaxFracDigits + 3
\* the texts handed to parse_threshold: their numbers have at most
\* MaxFracDigits + 1 digits before the point, so that every value in hours
\* stays an integer the model can hold
ParseTexts ==
    { t \in UNION { [1..n -> ParseAlphabet] : n \in 0..MaxTextLen } :
        Run(lstrip(t), Digits) <= MaxFracDigits + 1 }

InitParse ==
    /\ arg \in [fn : {"parse_threshold"}, text : ParseTexts]
    /\ Idle

\* parse_threshold(text)
CallParse ==
    /\ pc = "pure"
    /\ arg.fn = "parse_threshold"
    /\ ret' = parse_threshold(StrT(arg.text))
    /\ pc' = "done"
    /\ UNCHANGED <<argVars, fetchVars, arg, replay, clock, idx, now_ts, threshold_seconds,
                   alive_agents, addr, result, status, outcome, reqAgent>>

NextParse == CallParse

SpecParse == InitParse /\ [][NextParse]_vars

\* ------------------------------------------- _get_agent_address by itself
AddressValues ==
    { NoV, IntV, TextV(<<>>), TextV(<<" ">>), TextV(<<" ", "0", "X", "a", "B">>),
      TextV(<<"C", "d">>) }
AttrValues == { NoV, TextV(<<"C", "d">>) }
AddressAgents ==
    { DictAgent(m) : m \in [DOMAIN NoKeys -> AddressValues] }
    \cup { ObjAgent(m) : m \in [DOMAIN NoKeys -> AttrValues] }
    \cup { StrAgent(<<" ">>), StrAgent(<<" ", "0", "X", "a", "B">>) }

InitAddress ==
    /\ arg \in [fn : {"get_agent_address"}, agent : AddressAgents]
    /\ Idle

\* _get_agent_address(agent)
CallAddress ==
    /\ pc = "pure"
    /\ arg.fn = "get_agent_address"
    /\ ret' = get_agent_address(arg.agent)
    /\ pc' = "done"
    /\ UNCHANGED <<argVars, fetchVars, arg, replay, clock, idx, now_ts, threshold_seconds,
                   alive_agents, addr, result, status, outcome, reqAgent>>

NextAddress == CallAddress

SpecAddress == InitAddress /\ [][NextAddress]_vars

\* ================================================================== claims
ErrorOutcomes == {"addr_error", "fetch_error"}
FetchOver == fetched # "none"
Max2(a, b) == IF a >= b THEN a ELSE b

\* the agents of list l whose outcome in o is "recent", in order
RECURSIVE Kept(_, _)
Kept(l, o) ==
    IF l = <<>> \/ o = <<>> THEN <<>>
    ELSE (IF Head(o) = "recent" THEN <<Head(l)>> ELSE <<>>) \o Kept(Tail(l), Tail(o))

\* C1: when filter_alive_agents returns, the list is exactly the input agents
\* (the same objects) whose status was fetched and passed the recency check,
\* each as often as it occurs in the input and in input order, and the input
\* collection is as it was passed.
C1_ResultIsSubsequence ==
    /\ agents = agents0
    /\ pc \in {"loop", "request", "backoff", "returned"} =>
          alive_agents = Kept(agents0, outcome)
    /\ pc = "returned" =>
          /\ Len(outcome) = Len(agents0)
          /\ result = Returned(Kept(agents0, outcome))

C1_Witness ==
    /\ pc = "returned"
    /\ Len(agents) = 2
    /\ agents[1] # agents[2]
    /\ outcome = <<"recent", "recent">>
    /\ result.list = agents

C1_WitnessDropped ==
    /\ pc = "returned"
    /\ outcome = <<"stale", "recent">>
    /\ result.list = <<agents[2]>>

\* C2: the recency decision: with a timestamp, recent iff
\* max(0, now - timestamp) <= threshold_seconds; without one, recent iff
\* alive is true.
WVal(w) == 1000 * w.k + w.r
C2_RecencyDecision ==
    (pc = "done" /\ arg.fn = "is_recent") =>
        ret = IF arg.ts.t # "null"
              THEN (IF Max2(0, arg.now - WVal(arg.ts.n)) <= arg.thr THEN "true" ELSE "false")
              ELSE (IF arg.alive = JBool(TRUE) THEN "true" ELSE "false")

C2_Witness ==
    /\ pc = "done"
    /\ arg.fn = "is_recent"
    /\ arg.ts = JInt(2000)
    /\ arg.now = 1000
    /\ arg.thr = 0
    /\ arg.alive = JBool(FALSE)
    /\ ret = "true"

\* the threshold passed to the entry point is a threshold of more than zero
PositiveThreshold ==
    IF entry = "filter_alive"
    THEN parse_threshold(threshold).ok
    ELSE threshold.hours > 0

\* C3: with drop_on_error and a positive threshold the batch never raises: an
\* agent whose address or status cannot be had is left out, the agents after
\* it are still checked, and a list is returned.
C3_ErrorsAreDropped ==
    (drop_on_error /\ PositiveThreshold) =>
        /\ pc # "raised"
        /\ result.kind # "error"
        /\ (pc = "loop" /\ Len(outcome) > 0 /\ outcome[Len(outcome)] \in ErrorOutcomes) =>
              /\ idx = Len(outcome)
              /\ Len(alive_agents) <= Cardinality({j \in 1..Len(outcome) :
                                                     outcome[j] \notin ErrorOutcomes})
        /\ pc = "returned" =>
              /\ Len(outcome) = Len(agents)
              /\ result.kind = "list"
              /\ Len(result.list) <= Cardinality({j \in 1..Len(outcome) :
                                                    outcome[j] \notin ErrorOutcomes})

C3_Witness ==
    /\ pc = "returned"
    /\ drop_on_error
    /\ Len(outcome) = 2
    /\ outcome[1] = "fetch_error"
    /\ outcome[2] = "recent"
    /\ result.list = <<agents[2]>>

\* C4: without drop_on_error the first agent whose address or status cannot be
\* had ends the batch with that error: nothing is returned, and no later agent
\* is touched; a batch that returns has checked every agent without error.
C4_StrictAborts ==
    (~drop_on_error) =>
        /\ \A j \in 1..Len(outcome) :
              outcome[j] \in ErrorOutcomes =>
                 /\ pc = "raised"
                 /\ result.kind = "error"
                 /\ result.list = <<>>
                 /\ j = Len(outcome)
                 /\ idx = j
                 /\ reqAgent <= j
                 /\ fetched \in {"AgentPulseError", "after_loop"} => result.err = "AgentPulseError"
        /\ pc = "returned" =>
              /\ Len(outcome) = Len(agents)
              /\ \A j \in 1..Len(outcome) : outcome[j] \notin ErrorOutcomes

C4_Witness ==
    /\ pc = "raised"
    /\ ~drop_on_error
    /\ Len(agents) = 2
    /\ idx = 1
    /\ outcome = <<"fetch_error">>
    /\ reqCount >= 1

C4_WitnessAccepted ==
    /\ pc = "raised"
    /\ ~drop_on_error
    /\ alive_agents # <<>>
    /\ result.list = <<>>

\* C5: with max_retries >= 0, a request after the first follows only an attempt
\* that ended with 408, 429, 5xx or a network error, and one fetch never makes
\* more than max_retries + 1 requests.
C5_RetryOnlyAfterRetryable ==
    (max_retries >= 0) =>
        /\ reqCount <= max_retries + 1
        /\ (pc = "request" /\ reqCount >= 1) => SpecRetryable(lastResp)
        /\ reqCount >= 2 => nfail >= reqCount - 1

C5_Witness ==
    /\ pc = "request"
    /\ reqCount = 2
    /\ max_retries = 2
    /\ lastResp.kind = "http"
    /\ lastResp.code = 503

\* C6: an HTTP error status other than 408, 429 and 5xx ends the fetch at once
\* with the request error: no sleep and no request follows it, whatever is
\* left of the budget.
PermanentStatus(resp) == resp.kind = "http" /\ ~SpecRetryable(resp)

C6_PermanentFailsAtOnce ==
    PermanentStatus(lastResp) =>
        /\ fetched = "AgentPulseError"
        /\ pc \in {"loop", "returned", "raised"}
        /\ Len(sleeps) = reqCount - 1
        /\ attempt = reqCount - 1

C6_Witness ==
    /\ PermanentStatus(lastResp)
    /\ reqCount = 1
    /\ max_retries = 2
    /\ fetched = "AgentPulseError"

\* C7: k retryable failures (k <= max_retries) followed by a success: the
\* fetcher goes on after each of the failures, returns the payload of the
\* success, has made k + 1 requests, and raises nothing.
C7_SuccessAfterRetries ==
    /\ (SpecRetryable(lastResp) /\ reqCount <= max_retries) =>
          (pc \in {"backoff", "request"} /\ fetched = "none")
    /\ lastResp.kind \in {"json", "nondict"} =>
          /\ fetched = "payload"
          /\ reqCount = nfail + 1
          /\ nfail <= max_retries
          /\ lastResp.kind = "json" => status.raw = lastResp.payload

C7_Witness ==
    /\ lastResp.kind = "json"
    /\ nfail = 2
    /\ reqCount = 3
    /\ fetched = "payload"
    /\ status.raw = lastResp.payload

\* C8: when every attempt of a fetch ends with a retryable failure, the fetch
\* ends with the request error after exactly max_retries + 1 requests; no
\* payload is returned and no request is made beyond the budget.
C8_ExhaustedRetriesFail ==
    /\ (max_retries >= 0) => reqCount <= max_retries + 1
    /\ (FetchOver /\ nfail = reqCount /\ max_retries >= 0) =>
          /\ reqCount = max_retries + 1
          /\ fetched = "AgentPulseError"

C8_Witness ==
    /\ FetchOver
    /\ nfail = 3
    /\ reqCount = 3
    /\ max_retries = 2
    /\ lastResp.code = 503
    /\ fetched = "AgentPulseError"

\* C9: one sleep between two consecutive attempts, of backoff_secs * 2^attempt
\* for the attempt that failed; none before the first request, none after a
\* success or after the attempt that raises; a sleep is never followed by a
\* failure.
C9_BackoffSchedule ==
    /\ \A k \in 1..Len(sleeps) : sleeps[k] = backoff_secs * Pow(2, k - 1)
    /\ pc = "request" => Len(sleeps) = reqCount
    /\ pc = "backoff" => Len(sleeps) = reqCount - 1
    /\ pc \notin {"request", "backoff"} => Len(sleeps) = Max2(reqCount - 1, 0)
    /\ max_retries >= 0 => fetched # "after_loop"

C9_Witness ==
    /\ Len(sleeps) = 2
    /\ backoff_secs = 2
    /\ sleeps = <<2, 4>>
    /\ reqCount = 3
    /\ FetchOver

\* the threshold passed to the entry point is a number or a text that is not > 0
NotPositive ==
    \/ threshold.kind = "num" /\ threshold.hours <= 0
    \/ entry = "filter_alive" /\ threshold.kind = "str" /\ threshold.text \in ZeroTexts

\* C10: both entry points fail with the invalid-argument error when the
\* threshold is not > 0, before anything else happens: no agent is read, no
\* address extracted, no request made, whatever drop_on_error is.
C10_ThresholdCheckedFirst ==
    (NotPositive /\ pc # "call") =>
        /\ pc = "raised"
        /\ result = Raised("ValueError")
        /\ idx = 0
        /\ outcome = <<>>
        /\ reqAgent = 0
        /\ reqCount = 0
        /\ alive_agents = <<>>

C10_Witness ==
    /\ pc = "raised"
    /\ entry = "filter_alive"
    /\ threshold = StrT(<<"0", "h">>)
    /\ agents # <<>>
    /\ drop_on_error
    /\ result = Raised("ValueError")

C10_WitnessHours ==
    /\ pc = "raised"
    /\ entry = "filter_alive_agents"
    /\ threshold = NumT(0)
    /\ agents # <<>>
    /\ ~drop_on_error

\* C11 as stated: a second call on the same agents with the same threshold,
\* answered by the service as the first was, gives the result of the first.
C11_Idempotent ==
    (replay.mode = "second" /\ pc \in {"returned", "raised"}) => result = replay.first

\* C11 as amended: ... gives the result of the first, provided both calls read
\* the same current time when they start.
C11_IdempotentAtSameTime ==
    (replay.mode = "second" /\ pc \in {"returned", "raised"} /\ now_ts = replay.firstNow)
        => result = replay.first

C11_Witness ==
    /\ replay.mode = "second"
    /\ pc = "returned"
    /\ now_ts = replay.firstNow
    /\ Len(replay.log) >= 2
    /\ Len(result.list) = 2
    /\ result = replay.first

\* C12: a fetch that is over has either returned the decoded payload or raised
\* the request error (AgentPulseError); no other kind of error leaves the
\* fetcher, whatever went wrong during the attempt.
C12_OnlyRequestError ==
    FetchOver => fetched \in {"payload", "AgentPulseError", "after_loop"}

\* C20: the raise after the retry loop is never reached: whatever max_retries
\* is, a fetch that is over has returned or raised from inside the loop and
\* has issued at least one request.
C20_AfterLoopUnreachable ==
    FetchOver => (fetched # "after_loop" /\ reqCount >= 1)

\* the raw value a field is read from: the preferred key's, and the fallback
\* key's only when the preferred key is absent
Chosen(p, first, second) == IF p[first] = JNull THEN p[second] ELSE p[first]
Coercible(v) == v.t \in {"int", "numtext", "bool"}
IntOf(v) == IF v.t = "bool" THEN W(IF v.b THEN 1 ELSE 0) ELSE v.n
TenBillion == [k |-> MsLimitK, r |-> 0]
\* t if t <= 10,000,000,000, else t div 1000
Seconds(t) == IF WLeq(t, TenBillion) THEN t ELSE [k |-> t.k \div 1000, r |-> t.k % 1000]

\* C13: a present raw timestamp that coerces to an integer t is stored as
\* t div 1000 when t > 10,000,000,000 and as t otherwise (10,000,000,000
\* itself is unchanged); one that does not coerce is stored as null, and the
\* normaliser still returns.
C13_TimestampNormalised ==
    pc = "done" =>
        LET raw == Chosen(arg.payload, "lastPulse", "lastPulseTimestamp")
            stored == status.last_pulse_timestamp
        IN  /\ (raw # JNull /\ Coercible(raw)) =>
                  (stored.t = "int" /\ stored.n = Seconds(IntOf(raw)))
            /\ (raw # JNull /\ ~Coercible(raw)) => stored = JNull
            /\ raw = JInt(1700000000) => stored = JInt(1700000000)
            /\ raw = JWide(1700000000, 0) => stored = JInt(1700000000)
            /\ raw = JWide(MsLimitK, 0) => stored = JWide(MsLimitK, 0)

C13_Witness ==
    /\ pc = "done"
    /\ arg.payload["lastPulse"] = JWide(MsLimitK, 0)
    /\ status.last_pulse_timestamp = JWide(MsLimitK, 0)

C13_WitnessMs ==
    /\ pc = "done"
    /\ arg.payload["lastPulse"] = JNull
    /\ arg.payload["lastPulseTimestamp"] = JWide(1700000000, 0)
    /\ status.last_pulse_timestamp = JInt(1700000000)

C13_WitnessNull ==
    /\ pc = "done"
    /\ arg.payload["lastPulse"] = JText
    /\ status.last_pulse_timestamp = JNull

\* the payload with the values of the fallback keys under the preferred keys
OtherShape(p) ==
    [k \in PayloadKeys |->
        CASE k = "alive" -> p["isAlive"]
          [] k = "lastPulse" -> p["lastPulseTimestamp"]
          [] k = "streakCount" -> p["streak"]
          [] OTHER -> JNull]
OnlyFallbackKeys(p) ==
    p["alive"] = JNull /\ p["lastPulse"] = JNull /\ p["streakCount"] = JNull
Canonical(st) == <<st.alive, st.last_pulse_timestamp, st.streak_count>>

\* C14: each field of the status comes from its preferred key, and from the
\* fallback key only when the preferred key is absent; a field absent under
\* both keys is null; alive: false with isAlive: true gives alive = false; a
\* payload in one documented shape gives the same record as the payload with
\* the same values in the other shape.
C14_PreferredThenFallback ==
    pc = "done" =>
        LET p == arg.payload
            a == Chosen(p, "alive", "isAlive")
            t == Chosen(p, "lastPulse", "lastPulseTimestamp")
            c == Chosen(p, "streakCount", "streak")
        IN  /\ status.alive = a
            /\ status.last_pulse_timestamp =
                  IF t # JNull /\ Coercible(t)
                  THEN [t |-> "int", b |-> FALSE, n |-> Seconds(IntOf(t))] ELSE JNull
            /\ status.streak_count = IF c.t = "int" THEN c ELSE JNull
            /\ (p["alive"] = JBool(FALSE) /\ p["isAlive"] = JBool(TRUE))
                  => status.alive = JBool(FALSE)
            /\ OnlyFallbackKeys(p) =>
                  Canonical(status) = Canonical(status_of(<<>>, OtherShape(p)))

C14_Witness ==
    /\ pc = "done"
    /\ arg.payload["alive"] = JBool(FALSE)
    /\ arg.payload["isAlive"] = JBool(TRUE)
    /\ status.alive = JBool(FALSE)
    /\ arg.payload["lastPulse"] = JNull
    /\ arg.payload["lastPulseTimestamp"] = JInt(1700000000)
    /\ status.last_pulse_timestamp = JInt(1700000000)

\* C19: when the payload has a usable timestamp (present under one of the two
\* keys and coercible to an integer) the agent passes the recency test exactly
\* when that timestamp is within the threshold of now, whatever the alive flag
\* says; only without a usable timestamp does the alive flag decide.
C19_AliveOnlyWithoutTimestamp ==
    pc = "done" =>
        LET t == Chosen(arg.payload, "lastPulse", "lastPulseTimestamp")
            flag == Chosen(arg.payload, "alive", "isAlive")
            usable == t # JNull /\ Coercible(t)
        IN  IF usable
            THEN (ret = "true") <=> WLeq(W(arg.now - arg.thr), Seconds(IntOf(t)))
            ELSE (ret = "true") <=> (flag = JBool(TRUE))

C19_Witness ==
    /\ pc = "done"
    /\ arg.payload["alive"] = JBool(FALSE)
    /\ arg.payload["lastPulse"] = JInt(StartTime - 100)
    /\ ret = "true"

C19_WitnessStale ==
    /\ pc = "done"
    /\ arg.payload["alive"] = JBool(TRUE)
    /\ arg.payload["lastPulse"] = JInt(StartTime - 101)
    /\ ret = "false"

C19_WitnessFlag ==
    /\ pc = "done"
    /\ arg.payload["lastPulse"] = JText
    /\ arg.payload["lastPulseTimestamp"] = JInt(StartTime - 100)
    /\ arg.payload["isAlive"] = JBool(FALSE)
    /\ arg.payload["alive"] = JNull
    /\ ret = "false"

AllDigits(t) == Len(t) >= 1 /\ \A i \in 1..Len(t) : t[i] \in Digits
\* the places where a text \d+(\.\d+)? can be cut after its integer part
NumberCuts(t) ==
    { i \in 1..Len(t) :
        /\ AllDigits(SubSeq(t, 1, i))
        /\ \/ i = Len(t)
           \/ (t[i + 1] = "." /\ AllDigits(SubSeq(t, i + 2, Len(t)))) }
\* the value of such a text, in 1/FracScale
NumberValue(t) ==
    LET i == CHOOSE j \in NumberCuts(t) : TRUE
        frac == SubSeq(t, i + 2, Len(t))
    IN  DecVal(SubSeq(t, 1, i)) * FracScale + DecVal(frac) * Pow(10, MaxFracDigits - Len(frac))
Trimmed(t) == lower(strip(t))
Front(t) == SubSeq(t, 1, Len(t) - 1)
\* ^\d+(\.\d+)?[smhd]$
StrictPattern(t) == Len(t) >= 2 /\ t[Len(t)] \in Units /\ NumberCuts(Front(t)) # {}
\* ^\d+(\.\d+)?\s*[smhd]$
LoosePattern(t) == Len(t) >= 2 /\ t[Len(t)] \in Units /\ NumberCuts(rstrip(Front(t))) # {}
\* the hours of value v in unit u, counted in 1/3600 hour (times FracScale):
\* a second is 1/3600 hour, a minute 1/60 hour, a day 24 hours
HoursOf(v, u) ==
    CASE u = "s" -> v
      [] u = "m" -> 60 * v
      [] u = "h" -> 60 * 60 * v
      [] OTHER -> 24 * 60 * 60 * v

\* C15 as stated: parse_threshold accepts a text exactly when, trimmed and
\* lowercased, it matches ^\d+(\.\d+)?[smhd]$ with a value > 0, and then
\* returns the value converted to hours; every other text fails with ValueError.
C15_StrictPattern ==
    pc = "done" =>
        LET t == Trimmed(arg.text)
        IN  IF StrictPattern(t) /\ NumberValue(Front(t)) > 0
            THEN ret = Ok(HoursOf(NumberValue(Front(t)), t[Len(t)]))
            ELSE ret = Err("ValueError")

\* C15 as amended: ... matches ^\d+(\.\d+)?\s*[smhd]$ (whitespace may stand
\* between the number and the unit) with a value > 0 ...
C15_PatternWithGap ==
    pc = "done" =>
        LET t == Trimmed(arg.text)
        IN  IF LoosePattern(t) /\ NumberValue(rstrip(Front(t))) > 0
            THEN ret = Ok(HoursOf(NumberValue(rstrip(Front(t))), t[Len(t)]))
            ELSE ret = Err("ValueError")

C15_Witness ==
    /\ pc = "done"
    /\ arg.text = <<"1", " ", "H">>
    /\ ret = Ok(Hours(1))

C15_WitnessFraction ==
    /\ pc = "done"
    /\ arg.text = <<"1", ".", "1", "d">>
    /\ ret = Ok(24 * Hours(1) + (24 * Hours(1)) \div 10)

C15_WitnessZero ==
    /\ pc = "done"
    /\ arg.text = <<"0", "H">>
    /\ ret = Err("ValueError")

\* a string with a character that is not whitespace
NonBlankString(v) == v.t = "str" /\ \E i \in 1..Len(v.s) : ~IsSpace(v.s[i])
\* the places in the probing order whose key holds such a string
UsablePlaces(m) == { j \in 1..Len(AddressKeys) : NonBlankString(m[AddressKeys[j]]) }
FirstPlace(m) == CHOOSE j \in UsablePlaces(m) : \A i \in UsablePlaces(m) : j <= i

\* C16: for a mapping, the extractor returns the normalised value of the first
\* key, in the order address, wallet_address, walletAddress, agent_address,
\* agentAddress, that holds a non-blank string, skipping keys whose value is
\* missing, empty, blank or no string; with no such key it fails with
\* ValueError.  An object is probed by attribute in the same way.
C16_FirstUsableKey ==
    (pc = "done" /\ arg.agent.kind \in {"dict", "obj"}) =>
        LET m == arg.agent.m
        IN  /\ UsablePlaces(m) = {} => ret = Err("ValueError")
            /\ UsablePlaces(m) # {} =>
                  ret = Ok(Trimmed(m[AddressKeys[FirstPlace(m)]].s))
            /\ (NonBlankString(m["address"]) /\ NonBlankString(m["wallet_address"]))
                  => ret = Ok(Trimmed(m["address"].s))

C16_Witness ==
    /\ pc = "done"
    /\ arg.agent.kind = "dict"
    /\ arg.agent.m["address"] = TextV(<<" ", "0", "X", "a", "B">>)
    /\ arg.agent.m["wallet_address"] = TextV(<<"C", "d">>)
    /\ ret = Ok(<<"0", "x", "a", "b">>)

C16_WitnessSkipped ==
    /\ pc = "done"
    /\ arg.agent.kind = "dict"
    /\ arg.agent.m["address"] = TextV(<<" ">>)
    /\ arg.agent.m["wallet_address"] = IntV
    /\ arg.agent.m["walletAddress"] = NoV
    /\ arg.agent.m["agent_address"] = TextV(<<>>)
    /\ arg.agent.m["agentAddress"] = TextV(<<"C", "d">>)
    /\ ret = Ok(<<"c", "d">>)

C16_WitnessNone ==
    /\ pc = "done"
    /\ arg.agent.kind = "dict"
    /\ UsablePlaces(arg.agent.m) = {}
    /\ arg.agent.m["address"] = TextV(<<" ">>)
    /\ ret = Err("ValueError")

\* the agent at idx has just been checked with a fetched status
JustChecked == pc = "loop" /\ fetched = "payload" /\ idx >= 1
\* the agents kept before the one at idx
KeptBefore == Kept(SubSeq(agents, 1, idx - 1), outcome)

\* C17: the time is read once, before the first agent, and neither it nor
\* threshold_seconds changes during the batch; every agent is judged against
\* that batch-start time, however far the clock has moved during fetches and
\* sleeps; an agent whose last pulse is later than the batch start is kept.
C17_OneNowPerBatch ==
    /\ [](pc \in {"loop", "request", "backoff", "returned"} => now_ts = StartTime)
    /\ [][pc # "call" => (now_ts' = now_ts /\ threshold_seconds' = threshold_seconds)]_vars
    /\ [](JustChecked =>
            LET ts == status.last_pulse_timestamp
                rec == SpecRecent(status.alive, ts, StartTime, threshold_seconds)
            IN  /\ alive_agents = KeptBefore \o (IF rec THEN <<agents[idx]>> ELSE <<>>)
                /\ (ts.t = "int" /\ WLeq(W(StartTime + 1), ts.n))
                      => alive_agents = KeptBefore \o <<agents[idx]>>)

C17_Witness ==
    /\ JustChecked
    /\ idx = 2
    /\ clock > StartTime + 1
    /\ lastResp.payload = BoundaryPayload
    /\ Len(sleeps) >= 1
    /\ alive_agents = KeptBefore \o <<agents[idx]>>

C17_WitnessFuture ==
    /\ JustChecked
    /\ clock > StartTime
    /\ status.last_pulse_timestamp = JInt(StartTime + 1000)
    /\ alive_agents = KeptBefore \o <<agents[idx]>>

Terminated == pc \in {"returned", "raised"}

\* C18: with max_retries >= 0 every batch ends (returns or raises) after at
\* most n * (max_retries + 1) requests for its n agents; every fetch starts
\* with the whole retry budget, whatever earlier fetches used; requests for an
\* agent are issued only when the checks of all earlier agents are over.
C18_BatchTerminates ==
    /\ (max_retries >= 0) => <>Terminated
    /\ [](max_retries >= 0 => replay.pos <= Len(agents) * (max_retries + 1))
    /\ [](pc = "request" => (attempt = reqCount /\ reqCount <= max_retries))
    /\ [](pc \in {"request", "backoff"} => Len(outcome) = idx - 1)
    /\ [](pc = "backoff" => reqAgent = idx)

C18_Witness ==
    /\ Terminated
    /\ max_retries = 2
    /\ Len(agents) = 2
    /\ replay.pos = 6
    /\ outcome = <<"fetch_error", "fetch_error">>

C18_WitnessFreshBudget ==
    /\ pc = "request"
    /\ idx = 2
    /\ max_retries = 2
    /\ replay.pos = 5
    /\ reqCount = 2

====
